---- MODULE Spec2Model ----
(***************************************************************************)
(* The taxi-tip preprocessing pipeline of src/src/preprocess.py with the   *)
(* helpers of src/src/utils.py and src/log_file.py.                        *)
(*                                                                         *)
(* A DataFrame is a function from column names to equally long sequences   *)
(* of integers.  NaN stands for a missing entry.  Category keys are        *)
(* modelled by their rank in the sort order of the keys (1 = "A",          *)
(* 2 = "B", ...), datetimes by minutes since an epoch.  DataFrames live in *)
(* a heap, so that a copy and an alias are different things; a Python      *)
(* variable holds a heap address or None.                                  *)
(***************************************************************************)
EXTENDS Integers, Sequences, FiniteSets, TLC

VARIABLES
    pc,                  \* the statement of main() that runs next
    config_file,         \* what the file at the config path holds
    raw_data,            \* what the file at the raw-data path holds
    processed_data,      \* the destination path
    config,              \* main's column lists (lines 100-105)
    heap,                \* the DataFrame objects allocated so far
    taxi_df,             \* main's locals: heap addresses or None
    taxi_processed_dis,
    taxi_processed_obj,
    taxi,
    fs,                  \* the file system at the destination
    fs0,                 \* the file system when the run started
    log,                 \* the records handed to the loggers
    exc,                 \* the step whose exception is propagating, or ""
    calls                \* the steps invoked so far, in order

vars == <<pc, config_file, raw_data, processed_data, config, heap, taxi_df,
          taxi_processed_dis, taxi_processed_obj, taxi, fs, fs0, log, exc, calls>>

(***************************************************************************)
(* Bounds of the model.                                                    *)
(***************************************************************************)
MaxRows == 3

MaxList == 2

(***************************************************************************)
(* Values.                                                                 *)
(***************************************************************************)
NaN == -1000

None == 0

Range(s) == {s[i] : i \in 1..Len(s)}

Min(S) == CHOOSE x \in S : \A y \in S : x <= y

RECURSIVE SortedSeq(_)
SortedSeq(S) == IF S = {} THEN <<>> ELSE <<Min(S)>> \o SortedSeq(S \ {Min(S)})

NRows(t) == IF DOMAIN t = {} THEN 0 ELSE Len(t[CHOOSE c \in DOMAIN t : TRUE])

Columns(names, vals, n) == [names -> [1..n -> vals]]

(***************************************************************************)
(* log_file.py                                                             *)
(***************************************************************************)
Levels == {"info", "debug", "warning", "error", "critical"}

log_message(logger, level, message) ==
    IF level \in Levels
    THEN <<[logger |-> logger, level |-> level, message |-> message]>>
    ELSE <<[logger |-> logger, level |-> "error", message |-> "Invalid log level"]>>

(***************************************************************************)
(* pandas: the Series operations the stages use.                           *)
(***************************************************************************)
count(s, v) == Cardinality({i \in 1..Len(s) : s[i] = v})

RECURSIVE FirstSeenSeq(_, _)
FirstSeenSeq(s, S) ==
    IF S = {} THEN <<>>
    ELSE LET v == CHOOSE x \in S : \A y \in S :
                      Min({i \in 1..Len(s) : s[i] = x}) <= Min({i \in 1..Len(s) : s[i] = y})
         IN  <<v>> \o FirstSeenSeq(s, S \ {v})

\* A mode() that lists the most frequent values in order of first occurrence.
mode_unsorted(s) ==
    LET present == Range(s) \ {NaN}
    IN  FirstSeenSeq(s, {v \in present : \A w \in present : count(s, w) <= count(s, v)})

\* Series.mode(): the most frequent non-missing values, in ascending order.
mode(s) ==
    LET present == Range(s) \ {NaN}
    IN  SortedSeq({v \in present : \A w \in present : count(s, w) <= count(s, v)})

fillna(s, v) == [i \in 1..Len(s) |-> IF s[i] = NaN THEN v ELSE s[i]]

replace(s, a, b) == [i \in 1..Len(s) |-> IF s[i] = a THEN b ELSE s[i]]

\* An assignment in place of a copy: the same object under another name.
copy_alias(h, df) == [heap |-> h, id |-> df]

\* DataFrame.copy(): a new object with the same columns and values.
copy(h, df) == [heap |-> Append(h, h[df]), id |-> Len(h) + 1]

(***************************************************************************)
(* discrete_transformation                                                 *)
(***************************************************************************)
\* The loop of lines 37-39 from the k-th listed column on, on the working
\* frame t.  A result that is not ok carries the frame as the fault left it.
RECURSIVE fill_modes(_, _, _)
fill_modes(t, discrete_columns, k) ==
    IF k > Len(discrete_columns) THEN [ok |-> TRUE, table |-> t, err |-> ""]
    ELSE LET col == discrete_columns[k]
         IN  IF col \notin DOMAIN t
             THEN [ok |-> FALSE, table |-> t, err |-> "KeyError"]
             ELSE IF mode(t[col]) = <<>>
             THEN [ok |-> FALSE, table |-> t, err |-> "KeyError"]
             ELSE fill_modes([t EXCEPT ![col] = fillna(t[col], mode(t[col])[1])],
                             discrete_columns, k + 1)

\* Line 40 with the index off by one.
zero_to_one_first(t, discrete_columns) ==
    IF Len(discrete_columns) < 2
    THEN [ok |-> FALSE, table |-> t, err |-> "IndexError"]
    ELSE LET col == discrete_columns[1]
         IN  [ok |-> TRUE, table |-> [t EXCEPT ![col] = replace(t[col], 0, 1)], err |-> ""]

\* Line 40.
zero_to_one(t, discrete_columns) ==
    IF Len(discrete_columns) < 2
    THEN [ok |-> FALSE, table |-> t, err |-> "IndexError"]
    ELSE LET col == discrete_columns[2]
         IN  [ok |-> TRUE, table |-> [t EXCEPT ![col] = replace(t[col], 0, 1)], err |-> ""]

discrete_body(t, discrete_columns) ==
    LET filled == fill_modes(t, discrete_columns, 1)
    IN  IF filled.ok THEN zero_to_one(filled.table, discrete_columns) ELSE filled

\* Lines 43-46 ending in a bare raise.
discrete_except_reraise(err) ==
    [log |-> IF err = "KeyError"
             THEN log_message("preprocess", "error", "Column(s) not found")
             ELSE log_message("preprocess", "error", "Error during discrete transformation"),
     raise |-> TRUE]

\* Lines 43-46.
discrete_except(err) ==
    [log |-> IF err = "KeyError"
             THEN log_message("preprocess", "error", "Column(s) not found")
             ELSE log_message("preprocess", "error", "Error during discrete transformation"),
     raise |-> FALSE]

discrete_transformation(h, df, discrete_columns) ==
    IF df = None
    THEN LET x == discrete_except("AttributeError")
         IN  [heap |-> h, ret |-> None, log |-> x.log, raise |-> x.raise]
    ELSE LET c == copy(h, df)
             r == discrete_body(c.heap[c.id], discrete_columns)
             h2 == [c.heap EXCEPT ![c.id] = r.table]
             x == discrete_except(r.err)
         IN  IF r.ok
             THEN [heap |-> h2, ret |-> c.id,
                   log |-> log_message("preprocess", "info", "Discrete variables transformed"),
                   raise |-> FALSE]
             ELSE [heap |-> h2, ret |-> None, log |-> x.log, raise |-> x.raise]

(***************************************************************************)
(* object_transformation                                                   *)
(***************************************************************************)
RECURSIVE SumOver(_, _)
SumOver(s, I) ==
    IF I = {} THEN 0
    ELSE LET i == CHOOSE x \in I : TRUE IN s[i] + SumOver(s, I \ {i})

\* A group's mean as the exact fraction sum / n; n = 0 is the mean of no value.
group_mean(t, col, target_col, key) ==
    LET rows == {i \in 1..Len(t[col]) : t[col][i] = key /\ t[target_col][i] # NaN}
    IN  [sum |-> SumOver(t[target_col], rows), n |-> Cardinality(rows)]

\* data.groupby(col)[target_col].mean(): one entry per non-missing key of col,
\* in ascending order of the keys (groupby sorts the group keys).
groupby_mean(t, col, target_col) ==
    LET keys == SortedSeq(Range(t[col]) \ {NaN})
    IN  [k \in 1..Len(keys) |-> [key |-> keys[k], mean |-> group_mean(t, col, target_col, keys[k])]]

\* The loop of lines 55-57 from the k-th listed column on.
RECURSIVE fill_second(_, _, _, _)
fill_second(t, object_columns, target_col, k) ==
    IF k > Len(object_columns) THEN [ok |-> TRUE, table |-> t, err |-> ""]
    ELSE LET col == object_columns[k]
         IN  IF col \notin DOMAIN t \/ target_col \notin DOMAIN t
             THEN [ok |-> FALSE, table |-> t, err |-> "KeyError"]
             ELSE LET index == groupby_mean(t, col, target_col)
                  IN  IF Len(index) < 2
                      THEN [ok |-> FALSE, table |-> t, err |-> "IndexError"]
                      ELSE fill_second([t EXCEPT ![col] = fillna(t[col], index[2].key)],
                                       object_columns, target_col, k + 1)

\* Series.map(label_mapper): a value that is no key of the mapper becomes NaN.
map(s, label_mapper) ==
    [i \in 1..Len(s) |-> IF s[i] \in DOMAIN label_mapper THEN label_mapper[s[i]] ELSE NaN]

\* The loop of lines 60-62 from the k-th listed column on.
RECURSIVE label_all(_, _, _, _)
label_all(t, object_columns, target_col, k) ==
    IF k > Len(object_columns) THEN [ok |-> TRUE, table |-> t, err |-> ""]
    ELSE LET col == object_columns[k]
             items == groupby_mean(t, col, target_col)
             label_mapper == [var \in {items[idx].key : idx \in 1..Len(items)} |->
                                 (CHOOSE idx \in 1..Len(items) : items[idx].key = var) - 1]
         IN  label_all([t EXCEPT ![col] = map(t[col], label_mapper)],
                       object_columns, target_col, k + 1)

object_body(t, object_columns, target_col) ==
    LET filled == fill_second(t, object_columns, target_col, 1)
    IN  IF filled.ok THEN label_all(filled.table, object_columns, target_col, 1) ELSE filled

\* Lines 66-69.
object_except(err) ==
    [log |-> IF err = "KeyError"
             THEN log_message("preprocess", "error", "Column(s) not found")
             ELSE log_message("preprocess", "error", "Error during object transformation"),
     raise |-> FALSE]

object_transformation(h, df, object_columns, target_col) ==
    IF df = None
    THEN LET x == object_except("AttributeError")
         IN  [heap |-> h, ret |-> None, log |-> x.log, raise |-> x.raise]
    ELSE LET c == copy(h, df)
             r == object_body(c.heap[c.id], object_columns, target_col)
             h2 == [c.heap EXCEPT ![c.id] = r.table]
             x == object_except(r.err)
         IN  IF r.ok
             THEN [heap |-> h2, ret |-> c.id,
                   log |-> log_message("preprocess", "info", "Object variables transformed"),
                   raise |-> FALSE]
             ELSE [heap |-> h2, ret |-> None, log |-> x.log, raise |-> x.raise]

(***************************************************************************)
(* feature_engineering                                                     *)
(***************************************************************************)
\* The columns of dtype datetime64; every other column is numeric.
DatetimeColumns == {"t0", "t1", "t2"}

\* Elementwise != of pandas: a missing value differs from everything.
ne(a, b) == a = NaN \/ b = NaN \/ a # b

\* Elementwise - of pandas.
sub(a, b) == IF a = NaN \/ b = NaN THEN NaN ELSE a - b

RECURSIVE select(_, _, _)
select(s, keep, i) ==
    IF i > Len(s) THEN <<>>
    ELSE (IF keep[i] THEN <<s[i]>> ELSE <<>>) \o select(s, keep, i + 1)

\* df[mask]: a new frame with the rows whose mask entry is true, in order.
boolean_index(t, mask) == [c \in DOMAIN t |-> select(t[c], mask, 1)]

\* df[name] = values
assign(t, name, values) ==
    [c \in DOMAIN t \cup {name} |-> IF c = name THEN values ELSE t[c]]

\* A drop that removes the first two labels only.
drop_two(t, labels) == [c \in DOMAIN t \ {labels[1], labels[2]} |-> t[c]]

\* df.drop(labels=labels, axis=1, inplace=True), every label being a column.
drop(t, labels) == [c \in DOMAIN t \ Range(labels) |-> t[c]]

Fault(frames, t, err) == [ok |-> FALSE, frames |-> frames, table |-> t, err |-> err]

\* Line 78 on the copy t.  frames are the frames the filters created.
filter_0(t, feature_cols) ==
    IF Len(feature_cols) < 1 THEN Fault(<<>>, t, "IndexError")
    ELSE IF feature_cols[1] \notin DOMAIN t THEN Fault(<<>>, t, "KeyError")
    ELSE LET col == t[feature_cols[1]]
             df == boolean_index(t, [i \in 1..Len(col) |-> ne(col[i], 0)])
         IN  [ok |-> TRUE, frames |-> <<df>>, table |-> df, err |-> ""]

\* Line 79 reading the column at list index 2.
filter_2(p, feature_cols) ==
    IF ~p.ok THEN p
    ELSE IF Len(feature_cols) < 4 THEN Fault(p.frames, p.table, "IndexError")
    ELSE IF feature_cols[3] \notin DOMAIN p.table THEN Fault(p.frames, p.table, "KeyError")
    ELSE LET col == p.table[feature_cols[3]]
             df == boolean_index(p.table, [i \in 1..Len(col) |-> ne(col[i], 0)])
         IN  [ok |-> TRUE, frames |-> Append(p.frames, df), table |-> df, err |-> ""]

\* Line 79.
filter_3(p, feature_cols) ==
    IF ~p.ok THEN p
    ELSE IF Len(feature_cols) < 4 THEN Fault(p.frames, p.table, "IndexError")
    ELSE IF feature_cols[4] \notin DOMAIN p.table THEN Fault(p.frames, p.table, "KeyError")
    ELSE LET col == p.table[feature_cols[4]]
             df == boolean_index(p.table, [i \in 1..Len(col) |-> ne(col[i], 0)])
         IN  [ok |-> TRUE, frames |-> Append(p.frames, df), table |-> df, err |-> ""]

\* Line 80.
filter_1_2(p, feature_cols) ==
    IF ~p.ok THEN p
    ELSE IF feature_cols[2] \notin DOMAIN p.table \/ feature_cols[3] \notin DOMAIN p.table
    THEN Fault(p.frames, p.table, "KeyError")
    ELSE LET a == p.table[feature_cols[2]]
             b == p.table[feature_cols[3]]
             df == boolean_index(p.table, [i \in 1..Len(a) |-> ne(a[i], b[i])])
         IN  [ok |-> TRUE, frames |-> Append(p.frames, df), table |-> df, err |-> ""]

\* The working frame of p replaced by t: the last frame is changed in place.
Update(p, t) ==
    [p EXCEPT !.table = t, !.frames = [p.frames EXCEPT ![Len(p.frames)] = t]]

\* Line 83: .dt exists on the difference of two datetime columns only.
add_duration(p, date_cols) ==
    IF ~p.ok THEN p
    ELSE IF Len(date_cols) < 2 THEN [p EXCEPT !.ok = FALSE, !.err = "IndexError"]
    ELSE IF date_cols[2] \notin DOMAIN p.table \/ date_cols[1] \notin DOMAIN p.table
    THEN [p EXCEPT !.ok = FALSE, !.err = "KeyError"]
    ELSE IF ~({date_cols[1], date_cols[2]} \subseteq DatetimeColumns)
    THEN [p EXCEPT !.ok = FALSE, !.err = "AttributeError"]
    ELSE LET a == p.table[date_cols[2]]
             b == p.table[date_cols[1]]
         IN  Update(p, assign(p.table, "duration", [i \in 1..Len(a) |-> sub(a[i], b[i])]))

\* Line 84.
add_fare_per_dist(p, feature_cols) ==
    IF ~p.ok THEN p
    ELSE IF feature_cols[4] \notin DOMAIN p.table \/ feature_cols[2] \notin DOMAIN p.table
    THEN [p EXCEPT !.ok = FALSE, !.err = "KeyError"]
    ELSE LET a == p.table[feature_cols[4]]
             b == p.table[feature_cols[2]]
         IN  Update(p, assign(p.table, "fare_per_dist", [i \in 1..Len(a) |-> sub(a[i], b[i])]))

\* Line 85.
add_fare_per_passenger(p, feature_cols, discrete_cols) ==
    IF ~p.ok THEN p
    ELSE IF Len(discrete_cols) < 2 THEN [p EXCEPT !.ok = FALSE, !.err = "IndexError"]
    ELSE IF feature_cols[4] \notin DOMAIN p.table \/ discrete_cols[2] \notin DOMAIN p.table
    THEN [p EXCEPT !.ok = FALSE, !.err = "KeyError"]
    ELSE LET a == p.table[feature_cols[4]]
             b == p.table[discrete_cols[2]]
         IN  Update(p, assign(p.table, "fare_per_passenger",
                              [i \in 1..Len(a) |-> sub(a[i], b[i])]))

\* Line 87.
drop_dates(p, date_cols) ==
    IF ~p.ok THEN p
    ELSE IF ~(Range(date_cols) \subseteq DOMAIN p.table)
    THEN [p EXCEPT !.ok = FALSE, !.err = "KeyError"]
    ELSE Update(p, drop(p.table, date_cols))

feature_body(t, feature_cols, date_cols, discrete_cols) ==
    drop_dates(
        add_fare_per_passenger(
            add_fare_per_dist(
                add_duration(
                    filter_1_2(filter_3(filter_0(t, feature_cols), feature_cols), feature_cols),
                    date_cols),
                feature_cols),
            feature_cols, discrete_cols),
        date_cols)

\* Lines 90-93.
feature_except(err) ==
    [log |-> IF err = "KeyError"
             THEN log_message("preprocess", "error", "Column(s) not found")
             ELSE log_message("preprocess", "error", "Error during feature engineering"),
     raise |-> FALSE]

feature_engineering(h, data, feature_cols, date_cols, discrete_cols) ==
    IF data = None
    THEN LET x == feature_except("AttributeError")
         IN  [heap |-> h, ret |-> None, log |-> x.log, raise |-> x.raise]
    ELSE LET c == copy(h, data)
             r == feature_body(c.heap[c.id], feature_cols, date_cols, discrete_cols)
             h2 == c.heap \o r.frames
             x == feature_except(r.err)
         IN  IF r.ok
             THEN [heap |-> h2, ret |-> Len(h2),
                   log |-> log_message("preprocess", "info", "Feature engineering completed"),
                   raise |-> FALSE]
             ELSE [heap |-> h2, ret |-> None, log |-> x.log, raise |-> x.raise]

(***************************************************************************)
(* utils.py                                                                *)
(***************************************************************************)
\* Lines 18-27: the parsed file, or None after an error record.
load_config(file) ==
    IF file.state = "ok"
    THEN [ok |-> TRUE, params |-> file.params,
          log |-> log_message("utils", "info", "Parameter file loaded")]
    ELSE IF file.state = "absent"
    THEN [ok |-> FALSE, params |-> <<>>,
          log |-> log_message("utils", "error", "File not found")]
    ELSE [ok |-> FALSE, params |-> <<>>,
          log |-> log_message("utils", "error", "Error opening file")]

\* Lines 55-57.
load_data_except(err) ==
    [log |-> log_message("utils", "error", "Error loading data"), raise |-> TRUE]

\* Lines 43-54: X and y as two new frames, or the fault.
load_data(h, file, target) ==
    IF file.state # "ok"
    THEN [ok |-> FALSE, heap |-> h, err |-> "OSError"]
    ELSE LET data == file.table
         IN  IF target \notin DOMAIN data
             THEN [ok |-> FALSE, heap |-> Append(h, data), err |-> "ValueError"]
             ELSE [ok |-> TRUE,
                   heap |-> h \o <<data, [c \in DOMAIN data \ {target} |-> data[c]],
                                   [c \in {target} |-> data[c]]>>,
                   err |-> ""]

(***************************************************************************)
(* read_data                                                               *)
(***************************************************************************)
\* Lines 27-30.
read_except(err) ==
    [log |-> IF err = "FileNotFoundError"
             THEN log_message("preprocess", "error", "File not found")
             ELSE log_message("preprocess", "error", "Error loading data"),
     raise |-> FALSE]

read_data(h, file) ==
    IF file.state = "ok"
    THEN [heap |-> Append(h, file.table), ret |-> Len(h) + 1,
          log |-> log_message("preprocess", "info", "Successfully loaded Parquet file"),
          raise |-> FALSE]
    ELSE LET x == read_except(IF file.state = "absent" THEN "FileNotFoundError" ELSE "OSError")
         IN  [heap |-> h, ret |-> None, log |-> x.log, raise |-> x.raise]

(***************************************************************************)
(* main                                                                    *)
(***************************************************************************)
ConfigKeys == {"Numerical_Variable", "Categorical_Variable", "Discrete_Variable",
               "Datetime_Variable", "Target_Variable"}

Entry(fn, arg, r) == [fn |-> fn, arg |-> arg, ret |-> r.ret, log |-> r.log, raised |-> r.raise]

\* Lines 100-105: a None, a file without the section or a section without one
\* of the keys raises in main itself.
LoadConfig ==
    /\ pc = "load_config"
    /\ LET r == load_config(config_file)
           good == /\ r.ok
                   /\ "preprocess" \in DOMAIN r.params
                   /\ ConfigKeys \subseteq DOMAIN r.params.preprocess
       IN  /\ log' = log \o r.log
           /\ config' = IF good THEN r.params.preprocess ELSE config
           /\ exc' = IF good THEN exc ELSE "config"
           /\ pc' = IF good THEN "read_data" ELSE "except"
           /\ calls' = Append(calls, [fn |-> "load_config", arg |-> None,
                                      ret |-> IF r.ok THEN 1 ELSE None,
                                      log |-> r.log, raised |-> FALSE])
    /\ UNCHANGED <<config_file, raw_data, processed_data, heap, taxi_df,
                   taxi_processed_dis, taxi_processed_obj, taxi, fs, fs0>>

\* Line 108.
CallRead ==
    /\ pc = "read_data"
    /\ LET r == read_data(heap, raw_data)
       IN  /\ heap' = r.heap
           /\ taxi_df' = r.ret
           /\ log' = log \o r.log
           /\ exc' = IF r.raise THEN "read_data" ELSE exc
           /\ pc' = IF r.raise THEN "except" ELSE "discrete_transformation"
           /\ calls' = Append(calls, Entry("read_data", None, r))
    /\ UNCHANGED <<config_file, raw_data, processed_data, config,
                   taxi_processed_dis, taxi_processed_obj, taxi, fs, fs0>>

\* Line 111.
CallDiscrete ==
    /\ pc = "discrete_transformation"
    /\ LET r == discrete_transformation(heap, taxi_df, config.Discrete_Variable)
       IN  /\ heap' = r.heap
           /\ taxi_processed_dis' = r.ret
           /\ log' = log \o r.log
           /\ exc' = IF r.raise THEN "discrete_transformation" ELSE exc
           /\ pc' = IF r.raise THEN "except" ELSE "object_transformation"
           /\ calls' = Append(calls, Entry("discrete_transformation", taxi_df, r))
    /\ UNCHANGED <<config_file, raw_data, processed_data, config, taxi_df,
                   taxi_processed_obj, taxi, fs, fs0>>

\* Line 114.
CallObject ==
    /\ pc = "object_transformation"
    /\ LET r == object_transformation(heap, taxi_processed_dis,
                                      config.Categorical_Variable, config.Target_Variable)
       IN  /\ heap' = r.heap
           /\ taxi_processed_obj' = r.ret
           /\ log' = log \o r.log
           /\ exc' = IF r.raise THEN "object_transformation" ELSE exc
           /\ pc' = IF r.raise THEN "except" ELSE "feature_engineering"
           /\ calls' = Append(calls, Entry("object_transformation", taxi_processed_dis, r))
    /\ UNCHANGED <<config_file, raw_data, processed_data, config, taxi_df,
                   taxi_processed_dis, taxi, fs, fs0>>

\* Line 117.
CallFeature ==
    /\ pc = "feature_engineering"
    /\ LET r == feature_engineering(heap, taxi_processed_obj, config.Numerical_Variable,
                                    config.Datetime_Variable, config.Discrete_Variable)
       IN  /\ heap' = r.heap
           /\ taxi' = r.ret
           /\ log' = log \o r.log
           /\ exc' = IF r.raise THEN "feature_engineering" ELSE exc
           /\ pc' = IF r.raise THEN "except" ELSE "makedirs"
           /\ calls' = Append(calls, Entry("feature_engineering", taxi_processed_obj, r))
    /\ UNCHANGED <<config_file, raw_data, processed_data, config, taxi_df,
                   taxi_processed_dis, taxi_processed_obj, fs, fs0>>

\* os.makedirs(name, exist_ok=True): the empty name, which dirname gives for
\* a bare file name, raises FileNotFoundError.
makedirs(f, name) ==
    IF name = "" THEN [ok |-> FALSE, fs |-> f]
    ELSE [ok |-> TRUE, fs |-> [f EXCEPT !.dir = "dir"]]

\* Line 120.
MakeDirs ==
    /\ pc = "makedirs"
    /\ LET r == makedirs(fs, processed_data.dirname)
       IN  /\ fs' = r.fs
           /\ exc' = IF r.ok THEN exc ELSE "makedirs"
           /\ pc' = IF r.ok THEN "to_csv" ELSE "except"
           /\ calls' = Append(calls, [fn |-> "makedirs", arg |-> None,
                                      ret |-> IF r.ok THEN 1 ELSE None,
                                      log |-> <<>>, raised |-> ~r.ok])
    /\ UNCHANGED <<config_file, raw_data, processed_data, config, heap, taxi_df,
                   taxi_processed_dis, taxi_processed_obj, taxi, log, fs0>>

\* Lines 121-122: None has no to_csv.
Write ==
    /\ pc = "to_csv"
    /\ IF taxi = None
       THEN /\ exc' = "to_csv"
            /\ pc' = "except"
            /\ UNCHANGED <<fs, log>>
       ELSE /\ fs' = [fs EXCEPT !.file = <<heap[taxi]>>]
            /\ log' = log \o log_message("preprocess", "info", "Preprocessing completed")
            /\ pc' = "done"
            /\ UNCHANGED exc
    /\ calls' = Append(calls, [fn |-> "to_csv", arg |-> taxi,
                               ret |-> IF taxi = None THEN None ELSE 1,
                               log |-> <<>>, raised |-> taxi = None])
    /\ UNCHANGED <<config_file, raw_data, processed_data, config, heap, taxi_df,
                   taxi_processed_dis, taxi_processed_obj, taxi, fs0>>

\* Lines 123-125.
Except ==
    /\ pc = "except"
    /\ log' = log \o log_message("preprocess", "error", "Pipeline failed with error")
    /\ pc' = "raised"
    /\ UNCHANGED <<config_file, raw_data, processed_data, config, heap, taxi_df,
                   taxi_processed_dis, taxi_processed_obj, taxi, fs, fs0, exc, calls>>

\* A caller of utils.load_data with the raw file and the configured target.
CallLoadData ==
    /\ pc = "load_data"
    /\ LET r == load_data(heap, raw_data, config.Target_Variable)
           x == load_data_except(r.err)
       IN  /\ heap' = r.heap
           /\ log' = IF r.ok THEN log ELSE log \o x.log
           /\ exc' = IF ~r.ok /\ x.raise THEN "load_data" ELSE exc
           /\ pc' = IF ~r.ok /\ x.raise THEN "raised" ELSE "done"
           /\ calls' = Append(calls, [fn |-> "load_data", arg |-> None,
                                      ret |-> IF r.ok THEN Len(r.heap) ELSE None,
                                      log |-> IF r.ok THEN <<>> ELSE x.log,
                                      raised |-> ~r.ok /\ x.raise])
    /\ UNCHANGED <<config_file, raw_data, processed_data, config, taxi_df,
                   taxi_processed_dis, taxi_processed_obj, taxi, fs, fs0>>

Next ==
    \/ LoadConfig
    \/ CallRead
    \/ CallDiscrete
    \/ CallObject
    \/ CallFeature
    \/ MakeDirs
    \/ Write
    \/ Except
    \/ CallLoadData

(***************************************************************************)
(* Inputs.                                                                 *)
(***************************************************************************)
Lists(names, n) == UNION {[1..k -> names] : k \in 0..n}

Tables(names, vals, n) == UNION {Columns(names, vals, k) : k \in 0..n}

DefaultConfig ==
    [Numerical_Variable |-> <<"f0", "f1", "f2", "f3">>,
     Categorical_Variable |-> <<"c0">>,
     Discrete_Variable |-> <<"d0", "d1">>,
     Datetime_Variable |-> <<"t0", "t1">>,
     Target_Variable |-> "tip"]

OkConfigFile(c) == [state |-> "ok", params |-> [preprocess |-> c]]

OkRawData(t) == [state |-> "ok", table |-> t]

\* main() has read the table t and is about to call the stage at `at`.
InitAt(at, cfg, t) ==
    /\ pc = at
    /\ config_file = OkConfigFile(cfg)
    /\ raw_data = OkRawData(t)
    /\ processed_data = [dirname |-> "processed"]
    /\ config = cfg
    /\ heap = <<t>>
    /\ taxi_df = 1
    /\ taxi_processed_dis = IF at = "discrete_transformation" THEN None ELSE 1
    /\ taxi_processed_obj = IF at = "feature_engineering" THEN 1 ELSE None
    /\ taxi = None
    /\ fs = [dir |-> "absent", file |-> <<>>]
    /\ fs0 = fs
    /\ log = <<>>
    /\ exc = ""
    /\ calls = <<>>

DiscreteValues == {NaN, 0, 1}

InitDiscrete ==
    \E t \in Tables({"d0", "d1"}, DiscreteValues, MaxRows),
       l \in Lists({"d0", "d1", "zz"}, MaxList) :
        InitAt("discrete_transformation", [DefaultConfig EXCEPT !.Discrete_Variable = l], t)

SpecDiscrete == InitDiscrete /\ [][CallDiscrete]_vars

ObjectValues == {NaN, 1, 2, 3}

TargetValues == {0, 1, 2}

ObjectTables(n) ==
    {[c0 |-> c, tip |-> y] : c \in [1..n -> ObjectValues], y \in [1..n -> TargetValues]}

InitObject ==
    \E n \in 0..MaxRows :
        \E t \in ObjectTables(n), l \in Lists({"c0", "zz"}, MaxList), y \in {"tip", "zz"} :
            InitAt("object_transformation",
                   [DefaultConfig EXCEPT !.Categorical_Variable = l, !.Target_Variable = y], t)

SpecObject == InitObject /\ [][CallObject]_vars

\* Frames as object_transformation returns them: the fare, distance and
\* location columns vary, tip numbers the rows so that a row can be told from
\* any other, and a frame may already have a column named duration.
FeatureRows ==
    {r \in [f0 : {0, 1}, f1 : {NaN, 0, 1}, f2 : {NaN, 1}, f3 : {0, 2}] :
        r.f2 = NaN => r.f1 = NaN}

FeatureTable(rows, extra) ==
    LET n == Len(rows)
        base == [f0 |-> [i \in 1..n |-> rows[i].f0],
                 f1 |-> [i \in 1..n |-> rows[i].f1],
                 f2 |-> [i \in 1..n |-> rows[i].f2],
                 f3 |-> [i \in 1..n |-> rows[i].f3],
                 d0 |-> [i \in 1..n |-> 1],
                 d1 |-> [i \in 1..n |-> 2],
                 c0 |-> [i \in 1..n |-> 0],
                 t0 |-> [i \in 1..n |-> 10],
                 t1 |-> [i \in 1..n |-> 10 + 5 * i],
                 t2 |-> [i \in 1..n |-> 60],
                 tip |-> [i \in 1..n |-> i]]
    IN  IF extra THEN assign(base, "duration", [i \in 1..n |-> 7]) ELSE base

FeatureConfigs ==
    {[DefaultConfig EXCEPT !.Numerical_Variable = l] :
        l \in {<<"f0", "f1", "f2", "f3">>, <<"f3", "f2", "f1", "f0">>, <<"f0", "f1", "f2">>,
               <<"f0", "f1", "f2", "zz">>, <<"zz", "f1", "f2", "f3">>, <<>>}}
    \cup
    {[DefaultConfig EXCEPT !.Datetime_Variable = l] :
        l \in {<<"t0", "t1", "t2">>, <<"t1", "t0">>, <<"t0">>, <<"t0", "zz">>,
               <<"t0", "t1", "zz">>, <<"f0", "t1">>}}
    \cup
    {[DefaultConfig EXCEPT !.Discrete_Variable = l] :
        l \in {<<"d0">>, <<"d0", "zz">>, <<"d0", "f3">>}}

InitFeature ==
    \E n \in 0..(MaxRows - 1) :
        \E rows \in [1..n -> FeatureRows], extra \in BOOLEAN, cfg \in FeatureConfigs :
            InitAt("feature_engineering", cfg, FeatureTable(rows, extra))

SpecFeature == InitFeature /\ [][CallFeature]_vars

\* Whole runs: main() from its first line, or a call of load_data.
MainRows == [d1 : {NaN, 0}, c0 : {1, 2}, f0 : {0, 1}]

MainTable(rows) ==
    LET n == Len(rows)
    IN  [f0 |-> [i \in 1..n |-> rows[i].f0],
         f1 |-> [i \in 1..n |-> 0],
         f2 |-> [i \in 1..n |-> 1],
         f3 |-> [i \in 1..n |-> 2],
         d0 |-> [i \in 1..n |-> 1],
         d1 |-> [i \in 1..n |-> rows[i].d1],
         c0 |-> [i \in 1..n |-> rows[i].c0],
         t0 |-> [i \in 1..n |-> 10],
         t1 |-> [i \in 1..n |-> 10 + 5 * i],
         tip |-> [i \in 1..n |-> i]]

RawFiles ==
    {[state |-> "absent", table |-> <<>>], [state |-> "corrupt", table |-> <<>>]}
    \cup UNION {{OkRawData(MainTable(rows)) : rows \in [1..n -> MainRows]} :
                    n \in 0..(MaxRows - 1)}

MainConfigs ==
    {DefaultConfig,
     [DefaultConfig EXCEPT !.Discrete_Variable = <<"d1">>],
     [DefaultConfig EXCEPT !.Categorical_Variable = <<"zz">>],
     [DefaultConfig EXCEPT !.Datetime_Variable = <<"t0">>]}

ConfigFiles ==
    {[state |-> "absent", params |-> <<>>],
     [state |-> "malformed", params |-> <<>>],
     [state |-> "ok", params |-> [train |-> <<>>]],
     [state |-> "ok", params |-> [preprocess |-> [Target_Variable |-> "tip"]]]}
    \cup {OkConfigFile(c) : c \in MainConfigs}

Destinations ==
    {[path |-> [dirname |-> ""], dir |-> "dir"]}
    \cup {[path |-> [dirname |-> "processed"], dir |-> d] : d \in {"absent", "dir"}}

InitMain ==
    \E cf \in ConfigFiles, rf \in RawFiles, dst \in Destinations :
        /\ pc = "load_config"
        /\ config_file = cf
        /\ raw_data = rf
        /\ processed_data = dst.path
        /\ config = <<>>
        /\ heap = <<>>
        /\ taxi_df = None
        /\ taxi_processed_dis = None
        /\ taxi_processed_obj = None
        /\ taxi = None
        /\ fs = [dir |-> dst.dir, file |-> <<>>]
        /\ fs0 = fs
        /\ log = <<>>
        /\ exc = ""
        /\ calls = <<>>

InitLoadData ==
    \E rf \in RawFiles, y \in {"tip", "zz"} :
        /\ pc = "load_data"
        /\ config_file = OkConfigFile(DefaultConfig)
        /\ raw_data = rf
        /\ processed_data = [dirname |-> "processed"]
        /\ config = [DefaultConfig EXCEPT !.Target_Variable = y]
        /\ heap = <<>>
        /\ taxi_df = None
        /\ taxi_processed_dis = None
        /\ taxi_processed_obj = None
        /\ taxi = None
        /\ fs = [dir |-> "absent", file |-> <<>>]
        /\ fs0 = fs
        /\ log = <<>>
        /\ exc = ""
        /\ calls = <<>>

Spec == (InitMain \/ InitLoadData) /\ [][Next]_vars

(***************************************************************************)
(* Claims about discrete_transformation.  The frame handed to the stage is *)
(* the one read_data returned, raw_data.table; the claims state the mode   *)
(* in their own words, not through the model's mode().                     *)
(***************************************************************************)
DiscreteIn == raw_data.table

DiscreteOut == heap[taxi_processed_dis]

DiscreteSucceeded ==
    /\ calls # <<>>
    /\ calls[Len(calls)].fn = "discrete_transformation"
    /\ taxi_processed_dis # None

Listed(l) == Range(l)

MostFrequent(s) ==
    {v \in Range(s) \ {NaN} : \A w \in Range(s) \ {NaN} : count(s, w) <= count(s, v)}

FirstIndex(s, v) == Min({i \in 1..Len(s) : s[i] = v})

\* The most frequent value that occurs first in row order.
FirstSeenMode(s) ==
    CHOOSE v \in MostFrequent(s) : \A w \in MostFrequent(s) : FirstIndex(s, v) <= FirstIndex(s, w)

\* The smallest of the most frequent values.
SmallestMode(s) ==
    CHOOSE v \in MostFrequent(s) : \A w \in MostFrequent(s) : v <= w

\* What an imputed value v of column c looks like in the stage's result:
\* line 40 turns a 0 of the column at list index 1 into 1.
AfterCorrection(c, v) ==
    IF Len(config.Discrete_Variable) >= 2 /\ config.Discrete_Variable[2] = c /\ v = 0
    THEN 1 ELSE v

\* C4 as claimed: after discrete_transformation succeeds no entry of a listed
\* column is missing, and the formerly missing entries hold the column's most
\* frequent value, a tie going to the value that occurs first in row order.
C4_FirstSeenTie ==
    DiscreteSucceeded =>
        \A c \in Listed(config.Discrete_Variable) :
            MostFrequent(DiscreteIn[c]) # {} =>
                \A i \in 1..Len(DiscreteIn[c]) :
                    /\ DiscreteOut[c][i] # NaN
                    /\ DiscreteIn[c][i] = NaN =>
                           DiscreteOut[c][i] = AfterCorrection(c, FirstSeenMode(DiscreteIn[c]))

\* C4 as amended: after discrete_transformation succeeds no entry of a listed
\* column is missing, and the formerly missing entries hold the column's most
\* frequent value, a tie going to the smallest of the tied values.
C4_SmallestTie ==
    DiscreteSucceeded =>
        \A c \in Listed(config.Discrete_Variable) :
            MostFrequent(DiscreteIn[c]) # {} =>
                \A i \in 1..Len(DiscreteIn[c]) :
                    /\ DiscreteOut[c][i] # NaN
                    /\ DiscreteIn[c][i] = NaN =>
                           DiscreteOut[c][i] = AfterCorrection(c, SmallestMode(DiscreteIn[c]))

\* A successful call on a column with a missing entry and a tie that the two
\* rules break differently.
C4_Witness ==
    /\ DiscreteSucceeded
    /\ \E c \in Listed(config.Discrete_Variable) :
        /\ NaN \in Range(DiscreteIn[c])
        /\ FirstSeenMode(DiscreteIn[c]) # SmallestMode(DiscreteIn[c])

\* C5: after discrete_transformation succeeds the column at discrete-list
\* index 1 holds no zero, and every zero of every other column is still there,
\* also a zero that imputation wrote into another listed column.
C5_ZeroCorrection ==
    DiscreteSucceeded =>
        /\ Len(config.Discrete_Variable) >= 2
        /\ 0 \notin Range(DiscreteOut[config.Discrete_Variable[2]])
        /\ \A c \in DOMAIN DiscreteIn \ {config.Discrete_Variable[2]} :
            \A i \in 1..Len(DiscreteIn[c]) :
                /\ DiscreteIn[c][i] = 0 => DiscreteOut[c][i] = 0
                /\ ( /\ c \in Listed(config.Discrete_Variable)
                     /\ DiscreteIn[c][i] = NaN
                     /\ MostFrequent(DiscreteIn[c]) = {0} ) => DiscreteOut[c][i] = 0

\* A successful call where imputation wrote a zero into the column at index 1
\* and another column holds a zero.
C5_Witness ==
    /\ DiscreteSucceeded
    /\ LET c1 == config.Discrete_Variable[2]
       IN  /\ NaN \in Range(DiscreteIn[c1])
           /\ MostFrequent(DiscreteIn[c1]) = {0}
           /\ \E c \in DOMAIN DiscreteIn \ {c1} : 0 \in Range(DiscreteIn[c])

(***************************************************************************)
(* Claims about object_transformation.  The result holds labels, so the    *)
(* key an entry held after filling is read off the rows whose key is       *)
(* known: rows with the same label are the rows of one group.              *)
(***************************************************************************)
ObjectIn == heap[taxi_processed_dis]

ObjectOut == heap[taxi_processed_obj]

ObjectSucceeded ==
    /\ calls # <<>>
    /\ calls[Len(calls)].fn = "object_transformation"
    /\ taxi_processed_obj # None

Keys(s) == Range(s) \ {NaN}

\* The mean of the target over the rows I, as the fraction sum / n.
MeanOver(I) ==
    LET y == ObjectIn[config.Target_Variable]
        rows == {i \in I : y[i] # NaN}
    IN  [sum |-> SumOver(y, rows), n |-> Cardinality(rows)]

MeanLess(a, b) == a.n > 0 /\ b.n > 0 /\ a.sum * b.n < b.sum * a.n

RowsOfKey(c, v) == {i \in 1..Len(ObjectIn[c]) : ObjectIn[c][i] = v}

\* The keys of column c that precede v when the groups are ordered by target
\* mean ascending, equal means in key order.
Before(c, v) ==
    {w \in Keys(ObjectIn[c]) :
        \/ MeanLess(MeanOver(RowsOfKey(c, w)), MeanOver(RowsOfKey(c, v)))
        \/ /\ ~MeanLess(MeanOver(RowsOfKey(c, v)), MeanOver(RowsOfKey(c, w)))
           /\ w < v}

SecondLowestMeanKey(c) == CHOOSE v \in Keys(ObjectIn[c]) : Cardinality(Before(c, v)) = 1

\* The key row i of column c holds after filling.
KeyAfterFill(c, i) ==
    CHOOSE v \in Keys(ObjectIn[c]) :
        \E j \in RowsOfKey(c, v) : ObjectOut[c][j] = ObjectOut[c][i]

RowsOfLabel(c, g) == {i \in 1..Len(ObjectOut[c]) : ObjectOut[c][i] = g}

\* C2 as claimed: after object_transformation succeeds, the labels of a
\* listed column with at least 2 distinct values are exactly
\* 0 .. distinct-1, equal keys get equal labels, and a group with a lower
\* target mean (computed after filling) never gets a higher label.
C2_LabelsFollowMean ==
    ObjectSucceeded =>
        \A c \in Range(config.Categorical_Variable) :
            Cardinality(Keys(ObjectIn[c])) >= 2 =>
                LET labels == Range(ObjectOut[c])
                IN  /\ labels = 0..(Cardinality(Keys(ObjectIn[c])) - 1)
                    /\ \A v \in Keys(ObjectIn[c]) : \A i, j \in RowsOfKey(c, v) :
                           ObjectOut[c][i] = ObjectOut[c][j]
                    /\ \A g, h \in labels :
                           MeanLess(MeanOver(RowsOfLabel(c, g)), MeanOver(RowsOfLabel(c, h)))
                               => g < h

\* C3 as claimed: after object_transformation succeeds, no entry of a listed
\* column with at least 2 distinct non-missing values is missing, and every
\* formerly missing entry holds the key of the group with the second-lowest
\* target mean.
C3_FillSecondLowestMean ==
    ObjectSucceeded =>
        \A c \in Range(config.Categorical_Variable) :
            Cardinality(Keys(ObjectIn[c])) >= 2 =>
                \A i \in 1..Len(ObjectIn[c]) :
                    /\ ObjectOut[c][i] # NaN
                    /\ ObjectIn[c][i] = NaN => KeyAfterFill(c, i) = SecondLowestMeanKey(c)

(***************************************************************************)
(* Claims about feature_engineering.                                       *)
(***************************************************************************)
FeatureIn == heap[taxi_processed_obj]

FeatureOut == heap[taxi]

FeatureSucceeded ==
    /\ calls # <<>>
    /\ calls[Len(calls)].fn = "feature_engineering"
    /\ taxi # None

NewColumns == {"duration", "fare_per_dist", "fare_per_passenger"}

\* x != y on numbers of which either may be missing.
Differs(x, y) == x = NaN \/ y = NaN \/ x # y

\* The input rows with numeric[0] != 0, numeric[3] != 0 and
\* numeric[1] != numeric[2].
ValidRows ==
    LET numeric == config.Numerical_Variable
    IN  {i \in 1..NRows(FeatureIn) :
            /\ Differs(FeatureIn[numeric[1]][i], 0)
            /\ Differs(FeatureIn[numeric[4]][i], 0)
            /\ Differs(FeatureIn[numeric[2]][i], FeatureIn[numeric[3]][i])}

RECURSIVE Restrict(_, _, _)
Restrict(s, I, i) ==
    IF i > Len(s) THEN <<>>
    ELSE (IF i \in I THEN <<s[i]>> ELSE <<>>) \o Restrict(s, I, i + 1)

\* C6: the rows of the feature_engineering output are exactly the input rows
\* with numeric[0] != 0, numeric[3] != 0 and numeric[1] != numeric[2], in
\* their original order: on every input column that the stage neither drops
\* nor overwrites (tip numbers the input rows) the output is the input
\* restricted to those rows.
C6_RowsFiltered ==
    FeatureSucceeded =>
        \A c \in (DOMAIN FeatureIn \ Range(config.Datetime_Variable)) \ NewColumns :
            FeatureOut[c] = Restrict(FeatureIn[c], ValidRows, 1)

\* A successful call that drops a row whose numeric[1] equals numeric[2] and
\* keeps the row after it.
C6_Witness ==
    /\ FeatureSucceeded
    /\ LET numeric == config.Numerical_Variable
       IN  \E i \in 1..NRows(FeatureIn) :
               /\ FeatureIn[numeric[1]][i] # 0
               /\ FeatureIn[numeric[4]][i] # 0
               /\ FeatureIn[numeric[2]][i] = 1
               /\ FeatureIn[numeric[3]][i] = 1
               /\ i + 1 \in ValidRows
    /\ FeatureOut["tip"] = <<2>>

\* C7 as claimed: for a datetime list of length >= 2 the output columns are
\* the input columns minus exactly datetime[0] and datetime[1] plus the three
\* new columns, and every other input column keeps its values on the
\* surviving rows.
C7_DropsTwo ==
    (FeatureSucceeded /\ Len(config.Datetime_Variable) >= 2) =>
        LET two == {config.Datetime_Variable[1], config.Datetime_Variable[2]}
        IN  /\ DOMAIN FeatureOut = (DOMAIN FeatureIn \ two) \cup NewColumns
            /\ \A c \in DOMAIN FeatureIn \ two :
                   /\ c \in DOMAIN FeatureOut
                   /\ FeatureOut[c] = Restrict(FeatureIn[c], ValidRows, 1)

\* C7 as amended: the output columns are the input columns minus every column
\* of the datetime list plus the three new columns, and every input column
\* that is neither in the datetime list nor named like a new column keeps its
\* values on the surviving rows.
C7_DropsListed ==
    (FeatureSucceeded /\ Len(config.Datetime_Variable) >= 2) =>
        LET listed == Range(config.Datetime_Variable)
        IN  /\ DOMAIN FeatureOut = (DOMAIN FeatureIn \ listed) \cup NewColumns
            /\ \A c \in (DOMAIN FeatureIn \ listed) \ NewColumns :
                   /\ c \in DOMAIN FeatureOut
                   /\ FeatureOut[c] = Restrict(FeatureIn[c], ValidRows, 1)

\* A successful call with three listed datetime columns on a frame that has
\* a column named duration and a surviving row.
C7_Witness ==
    /\ FeatureSucceeded
    /\ Len(config.Datetime_Variable) = 3
    /\ "duration" \in DOMAIN FeatureIn
    /\ "t2" \notin DOMAIN FeatureOut
    /\ ValidRows # {}

(***************************************************************************)
(* Claims about whole runs.                                                *)
(***************************************************************************)
StageFns == {"discrete_transformation", "object_transformation", "feature_engineering"}

ReadAndStageFns == StageFns \cup {"read_data"}

Pipeline == <<"read_data", "discrete_transformation", "object_transformation",
              "feature_engineering", "makedirs", "to_csv">>

MainRun == calls # <<>> /\ calls[1].fn = "load_config"

Ended == pc \in {"done", "raised"}

ErrorRecord(r) == r.level = "error"

MainLoggedError ==
    /\ log # <<>>
    /\ log[Len(log)] = [logger |-> "preprocess", level |-> "error",
                        message |-> "Pipeline failed with error"]

\* The config load, the read or one of the three stages failed.
FailedBeforeWrite ==
    \/ exc = "config"
    \/ \E k \in 1..Len(calls) : calls[k].fn \in ReadAndStageFns /\ calls[k].ret = None

\* C1 as claimed: a run of main() in which the config load, the read or a
\* stage fails ends by logging the error and re-raising, nothing is created
\* or changed at or for the destination path, and no step runs twice.
C1_FailureLeavesNoTrace ==
    (MainRun /\ Ended /\ FailedBeforeWrite) =>
        /\ pc = "raised"
        /\ MainLoggedError
        /\ fs = fs0
        /\ \A j, k \in 1..Len(calls) : j # k => calls[j].fn # calls[k].fn

\* C10 as claimed: once the config is loaded the steps run at most once each
\* and in pipeline order, each stage on the previous stage's result; after a
\* stage has returned None every later stage is still invoked and returns
\* None, the destination directory is still created, and the exception that
\* reaches main's handler is the one of the write step.
C10_NoShortCircuit ==
    (MainRun /\ exc # "config") =>
        LET steps == Tail(calls)
            n == Len(steps)
        IN  /\ n <= Len(Pipeline)
            /\ \A k \in 1..n : steps[k].fn = Pipeline[k]
            /\ \A k \in 2..n : k <= 4 => steps[k].arg = steps[k - 1].ret
            /\ n = 6 => steps[6].arg = steps[4].ret
            /\ \A k \in 1..n :
                   (k <= 4 /\ steps[k].ret = None) =>
                       /\ \A j \in (k + 1)..n : j <= 4 => steps[j].ret = None
                       /\ Ended => /\ n = 6
                                   /\ fs.dir = "dir"
                                   /\ exc = "to_csv"

\* The last step was a call of a stage.
StageCalled == Len(calls') = Len(calls) + 1 /\ calls'[Len(calls')].fn \in StageFns

\* C8: a call of discrete_transformation, object_transformation or
\* feature_engineering, successful or not, leaves the frame passed in (and
\* every frame that existed before the call) as it was, and a successful call
\* returns a frame that did not exist before.
C8_NoInPlaceMutation ==
    [][StageCalled =>
         LET e == calls'[Len(calls')]
         IN  /\ \A id \in 1..Len(heap) : heap'[id] = heap[id]
             /\ e.ret # None =>
                    /\ e.ret # e.arg
                    /\ e.ret \notin 1..Len(heap)
                    /\ e.ret \in 1..Len(heap')]_vars

\* All three stages succeeded, each returning a frame that differs from the
\* one it was given, and the frame read_data returned is still the file's.
C8_Witness ==
    /\ taxi # None
    /\ heap[taxi_df] = raw_data.table
    /\ heap[taxi_processed_dis] # heap[taxi_df]
    /\ heap[taxi_processed_obj] # heap[taxi_processed_dis]
    /\ heap[taxi] # heap[taxi_processed_obj]

\* The columns a stage call refers to.
Referenced(fn) ==
    IF fn = "discrete_transformation" THEN Range(config.Discrete_Variable)
    ELSE IF fn = "object_transformation"
    THEN Range(config.Categorical_Variable) \cup {config.Target_Variable}
    ELSE {config.Numerical_Variable[i] : i \in 1..Len(config.Numerical_Variable)}
         \cup Range(config.Datetime_Variable)

\* C9: read_data and the three stages never raise: on a missing file, a None
\* argument, an absent column or any other fault they log one record at error
\* level and return None (a result comes with an info record); an exception
\* reaches the caller only from main's own statements and from load_data,
\* which logs at error level and re-raises.
C9_StagesSwallow ==
    /\ exc \notin ReadAndStageFns
    /\ \A k \in 1..Len(calls) :
        LET e == calls[k]
        IN  /\ e.fn \in ReadAndStageFns =>
                /\ ~e.raised
                /\ Len(e.log) = 1
                /\ e.log[1] \in Range(log)
                /\ (e.ret = None) <=> ErrorRecord(e.log[1])
                /\ (e.fn = "read_data" /\ raw_data.state # "ok") => e.ret = None
                /\ (e.fn \in StageFns /\ e.arg = None) => e.ret = None
                /\ (e.fn \in StageFns /\ e.arg # None
                      /\ ~(Referenced(e.fn) \subseteq DOMAIN heap[e.arg])) => e.ret = None
            /\ (e.fn = "load_data" /\ e.ret = None) =>
                /\ e.raised
                /\ pc = "raised"
                /\ ErrorRecord(log[Len(log)])
    /\ pc = "raised" => exc \in {"config", "makedirs", "to_csv", "load_data"}

\* A run whose raw file is missing: read_data and all three stages were
\* called, each returned None after an error record, and main re-raised the
\* fault of the write step.
C9_Witness ==
    /\ pc = "raised"
    /\ raw_data.state = "absent"
    /\ exc = "to_csv"
    /\ \A f \in ReadAndStageFns :
           \E k \in 1..Len(calls) : calls[k].fn = f /\ calls[k].ret = None

====
